---- MODULE Spec2Model ----
(***************************************************************************)
(* A model of the flip-flop protocol repository:                           *)
(*   - the example server (app/examples/server/main.rs): the event log, a  *)
(*     circular queue of (event, offset, instant) records, the catch-up    *)
(*     selection made for every request, and the background event source;  *)
(*   - the data frame (data/src/lib.rs): DataFrame::new and                *)
(*     DataFrame::parse over the packed 32-bit header word.                *)
(* Spec is the server, SpecFrame the data frame.  SpecHistory is the       *)
(* server with two history variables kept, SpecSource the event source and *)
(* the ingestion branch with a backlog in the channel, SpecFair the server *)
(* with its branches weakly fair.                                          *)
(***************************************************************************)
EXTENDS Integers, Sequences, FiniteSets, TLC

(***************************************************************************)
(* Program constants.                                                      *)
(***************************************************************************)
\* main.rs:47  const MAX_EVENTS: usize = 10
MAX_EVENTS == 10
\* main.rs:30  mpsc::channel::<Instant>(100)
CHANNEL_CAPACITY == 100
\* main.rs:35  gen_range(0..3): the delay is 0, 1 or 2 seconds
DELAY_RANGE == 3
\* main.rs:87  gen_range(0..10) == 0 triggers the reset
RESET_RANGE == 10
\* main.rs:50, lib.rs:48  a u32 is held as two 16-bit halves [hi, lo]
U16 == 65536

(***************************************************************************)
(* Bounds of the model.                                                    *)
(***************************************************************************)
\* event_offset is not incremented beyond this value
MaxOffset == 12
\* occurrences pending in the channel (the code allows CHANNEL_CAPACITY)
MaxChannel == 1
\* datagrams waiting in the socket
MaxInbox == 1
\* the event source's clock does not advance beyond this instant
MaxTime == 1
\* occurrences pending in the channel where the order of ingestion is studied
MaxBacklog == 3

Min(a, b) == IF a < b THEN a ELSE b

None == [none |-> TRUE]

(***************************************************************************)
(* 32-bit unsigned integers (the u32 of main.rs:50 and lib.rs:48), held as *)
(* [hi, lo] with both halves in 0 .. U16 - 1; the value is hi * U16 + lo.  *)
(***************************************************************************)
u32(n) == [hi |-> (n \div U16) % U16, lo |-> n % U16]

U32_MAX == [hi |-> U16 - 1, lo |-> U16 - 1]

\* a > b on u32
gt(a, b) == a.hi > b.hi \/ (a.hi = b.hi /\ a.lo > b.lo)

\* a + 1 on u32, wrapping
wrapping_inc(a) ==
    IF a.lo < U16 - 1 THEN [hi |-> a.hi, lo |-> a.lo + 1]
    ELSE IF a.hi < U16 - 1 THEN [hi |-> a.hi + 1, lo |-> 0]
    ELSE [hi |-> 0, lo |-> 0]

\* the values a client may send as last_event_offset
Cursors == {u32(n) : n \in 0 .. (MaxOffset + 1)} \cup {U32_MAX}

VARIABLES
    events,         \* the CircularQueue, in iteration order (newest first)
    event_offset,   \* the offset the next ingested event gets
    channel,        \* the mpsc channel event_s -> event_r, oldest first
    gen_pc,         \* the event source: "now" (loop top) or "sleep"
    event_time,     \* the event source's event_time
    clock,          \* the monotonic clock read by Instant::now()
    socket_in,      \* datagrams waiting to be received, oldest first
    main_pc,        \* the main loop: "select" or "send" (the send_to await)
    request,        \* the decoded request of the branch being run
    maybe_reply,    \* the record selected for it, or None
    cursor,         \* the polling client's last_event_offset
    ingested,       \* history: the records ingested since the last reset
    recording,      \* whether the two histories below are kept
    dropped,        \* history: the main loop's last iteration dropped a
                    \* datagram that did not decode
    repeat,         \* history: the polling client's last request and the
                    \* record replied, while it holds the same cursor and
                    \* nothing was ingested or asked by others since; or None
    frame_pc,       \* data frame scenario: position
    header,         \* the Header given to DataFrame::new
    payload,        \* the encrypted payload given to DataFrame::new
    data_frame,     \* the DataFrame: [header |-> word, encrypted_payload |-> bytes]
    parsed,         \* the result of DataFrame::parse
    decrypted,      \* the result of the AEAD decrypt step
    flipped         \* the bit of the header word changed in transit, or -1

serverVars == <<events, event_offset, channel, gen_pc, event_time, clock,
                socket_in, main_pc, request, maybe_reply, cursor,
                ingested, recording, dropped, repeat>>
frameVars == <<frame_pc, header, payload, data_frame, parsed, decrypted,
               flipped>>
vars == <<serverVars, frameVars>>

(***************************************************************************)
(* The circular queue (circular_queue::CircularQueue, used at main.rs:50,  *)
(* 68, 83, 89).  The sequence is the order iter() yields: newest first.    *)
(***************************************************************************)
with_capacity == << >>

\* push that refuses the new record when the queue is full
push_drops_new(q, x) ==
    IF Len(q) < MAX_EVENTS THEN <<x>> \o q ELSE q

push(q, x) ==
    IF Len(q) < MAX_EVENTS
    THEN <<x>> \o q
    ELSE <<x>> \o SubSeq(q, 1, MAX_EVENTS - 1)

\* clear that leaves the newest record in place
clear_keeps_newest(q) == IF q = << >> THEN q ELSE <<q[1]>>

clear(q) == << >>

(***************************************************************************)
(* The selection of main.rs:67-70.                                         *)
(***************************************************************************)
\* the test with >= in place of >
Exceeds_or_equal(rec, last_event_offset) ==
    ~gt(last_event_offset, rec.offset)

\* the test of take_while: *offset > request.last_event_offset
Exceeds(rec, last_event_offset) == gt(rec.offset, last_event_offset)

RECURSIVE take_while(_, _)
take_while(q, c) ==
    IF q = << >> THEN << >>
    ELSE IF Exceeds(Head(q), c) THEN <<Head(q)>> \o take_while(Tail(q), c)
    ELSE << >>

\* the first element in place of the last
last_takes_first(q) == IF q = << >> THEN None ELSE q[1]

\* Iterator::last
last(q) == IF q = << >> THEN None ELSE q[Len(q)]

\* the oldest record in place of the newest
next_takes_oldest(q) == IF q = << >> THEN None ELSE q[Len(q)]

\* events.iter().next()
next(q) == IF q = << >> THEN None ELSE q[1]

\* no fallback
or_else_nothing(opt, other) == opt

or_else(opt, other) == IF opt = None THEN other ELSE opt

Resolve(q, c) == or_else(last(take_while(q, c)), next(q))

(***************************************************************************)
(* Initial state of the server (main.rs:30, 49-51).                        *)
(***************************************************************************)
NoRequest == [none |-> TRUE]

\* the server starts at the instant now; the histories are kept or not
ServerStart(now, kept) ==
    /\ events = with_capacity
    /\ event_offset = u32(0)
    /\ channel = << >>
    /\ gen_pc = "now"
    /\ event_time = 0
    /\ clock = now
    /\ socket_in = << >>
    /\ main_pc = "select"
    /\ request = NoRequest
    /\ maybe_reply = None
    /\ cursor = u32(0)
    /\ ingested = << >>
    /\ recording = kept
    /\ dropped = FALSE
    /\ repeat = None

ServerInit == ServerStart(0, FALSE)

(***************************************************************************)
(* The event source task (main.rs:32-41).                                  *)
(***************************************************************************)
\* event_time = Instant::now(); the delay is drawn; sleep_until begins
GenNow ==
    /\ gen_pc = "now"
    /\ \E delay \in 0 .. (DELAY_RANGE - 1) :
          /\ clock + delay <= MaxTime
          /\ clock' = clock + delay
    /\ event_time' = clock
    /\ gen_pc' = "sleep"
    /\ UNCHANGED <<events, event_offset, channel, socket_in, main_pc, request,
                   maybe_reply, cursor, ingested, dropped, repeat,
                   recording, frameVars>>

\* a send that puts the value ahead of the pending ones
send_to_front(ch, x) == <<x>> \o ch

\* mpsc Sender::send (main.rs:38): the value joins the pending ones at the end
send(ch, x) == Append(ch, x)

\* the sleep is over and event_s.send(event_time) completes: it waits while
\* the channel is full
GenSend ==
    /\ gen_pc = "sleep"
    /\ Len(channel) < Min(CHANNEL_CAPACITY, MaxChannel)
    /\ channel' = send(channel, event_time)
    /\ gen_pc' = "now"
    /\ UNCHANGED <<events, event_offset, event_time, clock, socket_in, main_pc,
                   request, maybe_reply, cursor, ingested, dropped, repeat,
                   recording, frameVars>>

\* the same with room for a backlog in the channel
GenSendBacklog ==
    /\ gen_pc = "sleep"
    /\ Len(channel) < Min(CHANNEL_CAPACITY, MaxBacklog)
    /\ channel' = send(channel, event_time)
    /\ gen_pc' = "now"
    /\ UNCHANGED <<events, event_offset, event_time, clock, socket_in, main_pc,
                   request, maybe_reply, cursor, ingested, dropped, repeat,
                   recording, frameVars>>

(***************************************************************************)
(* Datagrams.  What a datagram holds is read by nobody before the server   *)
(* decodes it, so the socket holds undecoded datagrams and the content is  *)
(* drawn at the decoding: not a request, a request of some client with any *)
(* last_event_offset, or the request of the polling client.  The polling   *)
(* client keeps a cursor, sends it as last_event_offset, waits for the     *)
(* reply (or gives up on it) before it sends again, and takes the offset   *)
(* of the record a reply carries; so the cursor its request carries is the *)
(* cursor it holds when the request is decoded.                            *)
(***************************************************************************)
Datagram(c, who) == [ok |-> TRUE, last_event_offset |-> c, from |-> who]
Malformed == [ok |-> FALSE]
Undecoded == [bytes |-> "undecoded"]

\* the request the polling client sends
PollerRequest == Datagram(cursor, "poller")

\* the requests other clients may send
OtherRequests == {Datagram(c, "other") : c \in Cursors}

\* a datagram arrives at the socket
Arrive ==
    /\ Len(socket_in) < MaxInbox
    /\ socket_in' = Append(socket_in, Undecoded)
    /\ UNCHANGED <<events, event_offset, channel, gen_pc, event_time, clock,
                   main_pc, request, maybe_reply, cursor, ingested, dropped,
                   repeat, recording, frameVars>>

(***************************************************************************)
(* The main loop (main.rs:53-96).                                          *)
(***************************************************************************)
\* postcard::from_bytes on the datagram (main.rs:56): what it may yield
Decoded(d) == {Malformed} \cup OtherRequests \cup {PollerRequest}

\* a request branch that remembers what it replied last and resumes there
RecvRequest_resumes ==
    /\ main_pc = "select"
    /\ socket_in # << >>
    /\ socket_in' = Tail(socket_in)
    /\ \E r \in Decoded(Head(socket_in)) :
          /\ r.ok
          /\ request' = r
          /\ maybe_reply' =
                IF repeat # None /\ repeat.reply # None
                THEN Resolve(events, repeat.reply.offset)
                ELSE Resolve(events, r.last_event_offset)
          /\ repeat' = IF r.from = "poller" THEN repeat ELSE None
    /\ main_pc' = "send"
    /\ dropped' = FALSE
    /\ UNCHANGED <<events, event_offset, channel, gen_pc, event_time, clock,
                   cursor, ingested, recording, frameVars>>

\* main.rs:55-75: a datagram is received and decodes as a request; the
\* record to reply with is selected and the branch reaches send_to
RecvRequest ==
    /\ main_pc = "select"
    /\ socket_in # << >>
    /\ socket_in' = Tail(socket_in)
    /\ \E r \in Decoded(Head(socket_in)) :
          /\ r.ok
          /\ request' = r
          /\ maybe_reply' = Resolve(events, r.last_event_offset)
          /\ repeat' = IF r.from = "poller" THEN repeat ELSE None
    /\ main_pc' = "send"
    /\ dropped' = FALSE
    /\ UNCHANGED <<events, event_offset, channel, gen_pc, event_time, clock,
                   cursor, ingested, recording, frameVars>>

\* a request branch that answers a datagram it could not decode
RecvMalformed_replies ==
    /\ main_pc = "select"
    /\ socket_in # << >>
    /\ \E r \in Decoded(Head(socket_in)) :
          /\ ~r.ok
          /\ request' = [ok |-> FALSE, last_event_offset |-> u32(0),
                         from |-> "other"]
    /\ socket_in' = Tail(socket_in)
    /\ maybe_reply' = Resolve(events, u32(0))
    /\ main_pc' = "send"
    /\ dropped' = recording
    /\ UNCHANGED <<events, event_offset, channel, gen_pc, event_time, clock,
                   cursor, ingested, repeat, recording, frameVars>>

\* main.rs:55-56, 79: the datagram does not decode; nothing is done
RecvMalformed ==
    /\ main_pc = "select"
    /\ socket_in # << >>
    /\ \E r \in Decoded(Head(socket_in)) : ~r.ok
    /\ socket_in' = Tail(socket_in)
    /\ dropped' = recording
    /\ UNCHANGED <<events, event_offset, channel, gen_pc, event_time, clock,
                   main_pc, request, maybe_reply, cursor, ingested, repeat,
                   recording, frameVars>>

\* what the polling client's cursor becomes when the reply reaches it
Received(c, reply) == IF reply = None THEN c ELSE reply.offset

\* a send_to that does not return
SendReply_stalls ==
    /\ main_pc = "send"
    /\ \/ cursor' = cursor
       \/ /\ request.from = "poller"
          /\ cursor' = Received(cursor, maybe_reply)
    /\ UNCHANGED <<events, event_offset, channel, gen_pc, event_time, clock,
                   socket_in, main_pc, request, maybe_reply, ingested,
                   dropped, repeat, recording, frameVars>>

\* history: the request just answered and its reply, kept while the polling
\* client's next request will carry the same last_event_offset
Repeated(req, reply, c) ==
    IF req.from = "poller" /\ req.last_event_offset = c
    THEN [last_event_offset |-> c, reply |-> reply]
    ELSE None

\* main.rs:76-77: send_to completes and the branch ends.  The reply reaches
\* the client that asked, or is lost on the way.
SendReply ==
    /\ main_pc = "send"
    /\ \/ cursor' = cursor
       \/ /\ request.from = "poller"
          /\ cursor' = Received(cursor, maybe_reply)
    /\ repeat' = IF recording THEN Repeated(request, maybe_reply, cursor')
                          ELSE None
    /\ main_pc' = "select"
    /\ request' = NoRequest
    /\ maybe_reply' = None
    /\ UNCHANGED <<events, event_offset, channel, gen_pc, event_time, clock,
                   socket_in, ingested, dropped,
                   recording, frameVars>>

Record(offset, instant) ==
    [event |-> "SomeEvent", offset |-> offset, instant |-> instant]

\* an ingestion that does not wait for the request branch to end
IngestKeep_at_any_time ==
    /\ channel # << >>
    /\ gt(u32(MaxOffset), event_offset)
    /\ channel' = Tail(channel)
    /\ events' = push(events, Record(event_offset, Head(channel)))
    /\ event_offset' = wrapping_inc(event_offset)
    /\ ingested' = Append(ingested, Record(event_offset, Head(channel)))
    /\ dropped' = FALSE
    /\ repeat' = None
    /\ UNCHANGED <<gen_pc, event_time, clock, socket_in, main_pc, request,
                   maybe_reply, cursor, recording, frameVars>>

\* main.rs:82-83, 91-93: an occurrence is ingested and the offset advances
IngestKeep ==
    /\ main_pc = "select"
    /\ channel # << >>
    /\ \E draw \in 0 .. (RESET_RANGE - 1) : draw # 0
    /\ gt(u32(MaxOffset), event_offset)
    /\ channel' = Tail(channel)
    /\ events' = push(events, Record(event_offset, Head(channel)))
    /\ event_offset' = wrapping_inc(event_offset)
    /\ ingested' = Append(ingested, Record(event_offset, Head(channel)))
    /\ dropped' = FALSE
    /\ repeat' = None
    /\ UNCHANGED <<gen_pc, event_time, clock, socket_in, main_pc, request,
                   maybe_reply, cursor,
                   recording, frameVars>>

\* the reset that clears the log and leaves event_offset as it is
IngestReset_keeps_offset ==
    /\ main_pc = "select"
    /\ channel # << >>
    /\ channel' = Tail(channel)
    /\ events' = clear(push(events, Record(event_offset, Head(channel))))
    /\ event_offset' = event_offset
    /\ ingested' = << >>
    /\ dropped' = FALSE
    /\ repeat' = None
    /\ UNCHANGED <<gen_pc, event_time, clock, socket_in, main_pc, request,
                   maybe_reply, cursor, recording, frameVars>>

\* a reset that clears the log before the record is pushed
IngestReset_clears_first ==
    /\ main_pc = "select"
    /\ channel # << >>
    /\ channel' = Tail(channel)
    /\ events' = push(clear(events), Record(event_offset, Head(channel)))
    /\ event_offset' = u32(0)
    /\ ingested' = << >>
    /\ dropped' = FALSE
    /\ repeat' = None
    /\ UNCHANGED <<gen_pc, event_time, clock, socket_in, main_pc, request,
                   maybe_reply, cursor, recording, frameVars>>

\* main.rs:82-90: an occurrence is ingested and the draw triggers the reset
IngestReset ==
    /\ main_pc = "select"
    /\ channel # << >>
    /\ \E draw \in 0 .. (RESET_RANGE - 1) : draw = 0
    /\ channel' = Tail(channel)
    /\ events' = clear(push(events, Record(event_offset, Head(channel))))
    /\ event_offset' = u32(0)
    /\ ingested' = << >>
    /\ dropped' = FALSE
    /\ repeat' = None
    /\ UNCHANGED <<gen_pc, event_time, clock, socket_in, main_pc, request,
                   maybe_reply, cursor,
                   recording, frameVars>>

ServerNext ==
    \/ GenNow
    \/ GenSend
    \/ Arrive
    \/ RecvRequest
    \/ RecvMalformed
    \/ SendReply
    \/ IngestKeep
    \/ IngestReset

(***************************************************************************)
(* Bitwise operations on u32 (lib.rs:68-71, 82-90).                        *)
(***************************************************************************)
RECURSIVE Pow2(_)
Pow2(n) == IF n = 0 THEN 1 ELSE 2 * Pow2(n - 1)

RECURSIVE and16(_, _)
and16(a, b) ==
    IF a = 0 \/ b = 0 THEN 0
    ELSE (a % 2) * (b % 2) + 2 * and16(a \div 2, b \div 2)

RECURSIVE or16(_, _)
or16(a, b) ==
    IF a = 0 THEN b
    ELSE IF b = 0 THEN a
    ELSE (IF a % 2 = 1 \/ b % 2 = 1 THEN 1 ELSE 0)
         + 2 * or16(a \div 2, b \div 2)

\* a & b
bitand(a, b) == [hi |-> and16(a.hi, b.hi), lo |-> and16(a.lo, b.lo)]

\* a | b
bitor(a, b) == [hi |-> or16(a.hi, b.hi), lo |-> or16(a.lo, b.lo)]

\* a << n, for n in 0 .. 16
shl(a, n) ==
    IF n = 16 THEN [hi |-> a.lo, lo |-> 0]
    ELSE [hi |-> ((a.hi * Pow2(n)) % U16) + (a.lo \div Pow2(16 - n)),
          lo |-> (a.lo * Pow2(n)) % U16]

\* a >> n, for n in 0 .. 16
shr(a, n) ==
    IF n = 16 THEN [hi |-> 0, lo |-> a.hi]
    ELSE [hi |-> a.hi \div Pow2(n),
          lo |-> (a.lo \div Pow2(n)) + (a.hi % Pow2(n)) * Pow2(16 - n)]

\* x as u8, x as u16
as_u8(a) == a.lo % 256
as_u16(a) == a.lo

(***************************************************************************)
(* The data frame (lib.rs:58-106).                                         *)
(***************************************************************************)
DataSource == {"Client", "Server"}

Header(version, source, server_address, server_port, frame_counter) ==
    [version |-> version, source |-> source,
     server_address |-> server_address, server_port |-> server_port,
     frame_counter |-> frame_counter]

ParseError == [ok |-> FALSE]

Ok(h, bytes) == [ok |-> TRUE, header |-> h, encrypted_payload |-> bytes]

\* new with the server port shifted by 7 in place of 8
DataFrame_new_shift7(h, encrypted_payload) ==
    LET source == IF h.source = "Client" THEN 0 ELSE 1
    IN  [header |->
            bitor(bitor(bitor(
                shl(u32(source), 2),
                shl(bitand(u32(h.server_address), u32(31)), 3)),
                shl(bitand(u32(h.server_port), u32(31)), 7)),
                shl(bitand(u32(h.frame_counter), u32(65535)), 16)),
         encrypted_payload |-> encrypted_payload]

\* new without the 0x1F mask on the server address
DataFrame_new_unmasked(h, encrypted_payload) ==
    LET source == IF h.source = "Client" THEN 0 ELSE 1
    IN  [header |->
            bitor(bitor(bitor(
                shl(u32(source), 2),
                shl(u32(h.server_address), 3)),
                shl(bitand(u32(h.server_port), u32(31)), 8)),
                shl(bitand(u32(h.frame_counter), u32(65535)), 16)),
         encrypted_payload |-> encrypted_payload]

\* DataFrame::new (lib.rs:61-74)
DataFrame_new(h, encrypted_payload) ==
    LET source == IF h.source = "Client" THEN 0 ELSE 1
    IN  [header |->
            bitor(bitor(bitor(
                shl(u32(source), 2),
                shl(bitand(u32(h.server_address), u32(31)), 3)),
                shl(bitand(u32(h.server_port), u32(31)), 8)),
                shl(bitand(u32(h.frame_counter), u32(65535)), 16)),
         encrypted_payload |-> encrypted_payload]

\* DataFrame::parse (lib.rs:81-105)
parse(self) ==
    LET version == bitand(self.header, u32(2))
        bit == bitand(shr(self.header, 2), u32(1))
        source == IF bit = u32(0) THEN "Client"
                  ELSE IF bit = u32(1) THEN "Server"
                  ELSE "None"
        server_address == bitand(shr(self.header, 3), u32(31))
        server_port == bitand(shr(self.header, 8), u32(31))
        frame_counter == bitand(shr(self.header, 16), u32(65535))
    IN  IF version = u32(0) /\ source # "None"
        THEN Ok(Header(0, source, as_u8(server_address), as_u8(server_port),
                       as_u16(frame_counter)),
                self.encrypted_payload)
        ELSE ParseError

(***************************************************************************)
(* The associated data and the AEAD step around the frame (lib.rs:137-145, *)
(* 185-194).  The cipher is a stub: the tag it appends is the associated   *)
(* data, and decryption accepts exactly when the associated data presented *)
(* is the one the tag was made from.                                       *)
(***************************************************************************)
\* postcard::to_slice(&header, ..): one byte per u8 field and per enum
\* variant, the u16 low byte first
to_slice(h) ==
    <<h.version, IF h.source = "Client" THEN 0 ELSE 1, h.server_address,
      h.server_port, h.frame_counter % 256, h.frame_counter \div 256>>

encrypt_in_place(associated_data, plaintext) == plaintext \o associated_data

decrypt_in_place(associated_data, bytes) ==
    LET n == Len(bytes) - Len(associated_data)
    IN  IF n >= 0 /\ SubSeq(bytes, n + 1, Len(bytes)) = associated_data
        THEN [ok |-> TRUE, plaintext |-> SubSeq(bytes, 1, n)]
        ELSE [ok |-> FALSE]

\* the word with bit i changed
flip(word, i) ==
    IF i < 16
    THEN [word EXCEPT !.lo =
            IF (word.lo \div Pow2(i)) % 2 = 1 THEN @ - Pow2(i) ELSE @ + Pow2(i)]
    ELSE [word EXCEPT !.hi =
            IF (word.hi \div Pow2(i - 16)) % 2 = 1
            THEN @ - Pow2(i - 16) ELSE @ + Pow2(i - 16)]

(***************************************************************************)
(* The inputs of the data frame scenario.                                  *)
(***************************************************************************)
\* u8 values: every in-range value 0..31 and some beyond
U8Values == (0 .. 31) \cup {32, 33, 64, 255}
\* values one field takes while the other ranges over U8Values
Anchors == {0, 2, 31, 33}
Counters == {0, 1, 65535}
Plaintexts == {<< >>, <<115, 111>>}

Headers ==
    {Header(v, s, a, p, c) :
        v \in {0}, s \in DataSource, a \in U8Values, p \in Anchors,
        c \in Counters}
    \cup
    {Header(v, s, a, p, c) :
        v \in {0}, s \in DataSource, a \in Anchors, p \in U8Values,
        c \in Counters}
    \cup
    {Header(v, s, a, p, c) :
        v \in 1 .. 3, s \in DataSource, a \in Anchors, p \in Anchors,
        c \in Counters}

\* header words as they may arrive: any version, any reserved bits
WireWords ==
    {[hi |-> c, lo |-> v + 4 * s + 8 * a + 256 * p + 8192 * r] :
        v \in 0 .. 3, s \in 0 .. 1, a \in {0, 31}, p \in {0, 2},
        r \in {0, 5}, c \in Counters}

FrameIdle ==
    /\ frame_pc = "idle"
    /\ header = None
    /\ payload = None
    /\ data_frame = None
    /\ parsed = None
    /\ decrypted = None
    /\ flipped = -1

\* the sender: the payload is encrypted with the serialized header as
\* associated data and the frame is built (lib.rs:127-147)
BuildFrame ==
    /\ frame_pc = "idle"
    /\ \E h \in Headers, text \in Plaintexts :
          LET bytes == encrypt_in_place(to_slice(h), text)
          IN  /\ header' = h
              /\ payload' = bytes
              /\ data_frame' = DataFrame_new(h, bytes)
    /\ frame_pc' = "built"
    /\ UNCHANGED <<parsed, decrypted, flipped, serverVars>>

\* the frame reaches the receiver as it was built
Deliver ==
    /\ frame_pc = "built"
    /\ frame_pc' = "received"
    /\ UNCHANGED <<header, payload, data_frame, parsed, decrypted, flipped,
                   serverVars>>

\* the frame reaches the receiver with one bit of its header word changed
Tamper ==
    /\ frame_pc = "built"
    /\ \E i \in 0 .. 31 :
          /\ data_frame' = [data_frame EXCEPT !.header = flip(@, i)]
          /\ flipped' = i
    /\ frame_pc' = "received"
    /\ UNCHANGED <<header, payload, parsed, decrypted, serverVars>>

\* a frame of unknown origin reaches the receiver (lib.rs:165-169)
ReceiveRaw ==
    /\ frame_pc = "idle"
    /\ \E w \in WireWords, text \in Plaintexts :
          data_frame' = [header |-> w, encrypted_payload |-> text]
    /\ frame_pc' = "received"
    /\ UNCHANGED <<header, payload, parsed, decrypted, flipped, serverVars>>

\* the receiver parses the frame (lib.rs:171)
Parse ==
    /\ frame_pc = "received"
    /\ parsed' = parse(data_frame)
    /\ frame_pc' = "parsed"
    /\ UNCHANGED <<header, payload, data_frame, decrypted, flipped,
                   serverVars>>

\* the receiver decrypts with the header it parsed as associated data
\* (lib.rs:183-194)
Decrypt ==
    /\ frame_pc = "parsed"
    /\ parsed.ok
    /\ decrypted' = decrypt_in_place(to_slice(parsed.header),
                                     parsed.encrypted_payload)
    /\ frame_pc' = "done"
    /\ UNCHANGED <<header, payload, data_frame, parsed, flipped, serverVars>>

Init == ServerInit /\ FrameIdle

Next == ServerNext

Spec == Init /\ [][Next]_vars

NextFrame ==
    \/ BuildFrame
    \/ Deliver
    \/ Tamper
    \/ ReceiveRaw
    \/ Parse
    \/ Decrypt

SpecFrame == Init /\ [][NextFrame]_vars

\* The server with the histories `dropped` and `repeat` kept.  The clock
\* starts at the end of the time window, so all instants are the same.
InitHistory == ServerStart(MaxTime, TRUE) /\ FrameIdle

SpecHistory == InitHistory /\ [][Next]_vars

\* The two branches of select! (main.rs:54-55, 82) and the fairness of the
\* loop: a branch that stays enabled is taken, and send_to returns.  The
\* clock starts at the end of the time window.
Receive == RecvRequest \/ RecvMalformed

Ingest == IngestKeep \/ IngestReset

Fairness == WF_vars(Receive) /\ WF_vars(Ingest) /\ WF_vars(SendReply)

InitFair == ServerStart(MaxTime, FALSE) /\ FrameIdle

SpecFair == InitFair /\ [][Next]_vars /\ Fairness

\* The event source and the ingestion branch alone, with a backlog in the
\* channel: no datagram arrives.
NextSource ==
    \/ GenNow
    \/ GenSendBacklog
    \/ IngestKeep
    \/ IngestReset

SpecSource == Init /\ [][NextSource]_vars

(***************************************************************************)
(* Properties of the server.                                               *)
(***************************************************************************)
Retained == {events[i] : i \in 1 .. Len(events)}

\* the retained records whose offset exceeds c
Unseen(c) == {r \in Retained : gt(r.offset, c)}

\* r has the smallest offset among the records of S
Oldest(r, S) == r \in S /\ \A x \in S : ~gt(r.offset, x.offset)

\* the main loop has selected the record for a request and not yet left
\* the branch
Selected == main_pc = "send"

\* C1: when the newest retained record has an offset greater than the
\* request's last_event_offset, the record selected is the retained record
\* with the smallest offset that is still greater (the oldest unseen one).
C1_OldestUnseen ==
    (Selected /\ events # << >>
        /\ gt(events[1].offset, request.last_event_offset))
    => Oldest(maybe_reply, Unseen(request.last_event_offset))

\* C1 happens: three records are unseen and the one selected is neither the
\* newest nor the oldest retained
C1_Witness ==
    /\ Selected
    /\ Cardinality(Unseen(request.last_event_offset)) = 3
    /\ Len(events) > 3
    /\ maybe_reply = events[3]

\* C2: on a non-empty log where no retained record has an offset greater
\* than last_event_offset, the newest retained record is selected.
C2_FallbackNewest ==
    (Selected /\ events # << >> /\ Unseen(request.last_event_offset) = {})
    => maybe_reply = events[1]

\* C2 happens with last_event_offset = 0xFFFFFFFF and more than one record
C2_Witness ==
    /\ Selected
    /\ request.last_event_offset = U32_MAX
    /\ Len(events) > 1
    /\ maybe_reply = events[1]

\* C3 as stated: a reply to the polling client that carries an offset r
\* greater than the cursor c it sent has r = c + 1.
C3_NoSkip ==
    (Selected /\ request.from = "poller" /\ maybe_reply # None
        /\ gt(maybe_reply.offset, request.last_event_offset))
    => maybe_reply.offset = wrapping_inc(request.last_event_offset)

\* C3 amended: r = c + 1 unless the log is full and the record c + 1 has
\* been evicted, and then the reply carries the oldest retained record.
C3_NoSkipUnlessEvicted ==
    (Selected /\ request.from = "poller" /\ maybe_reply # None
        /\ gt(maybe_reply.offset, request.last_event_offset))
    => \/ maybe_reply.offset = wrapping_inc(request.last_event_offset)
       \/ /\ Len(events) = MAX_EVENTS
          /\ maybe_reply = events[Len(events)]
          /\ \A r \in Retained :
                r.offset # wrapping_inc(request.last_event_offset)

\* C3 happens: the polling client has advanced its cursor from a reply and
\* is answered with the next record while newer ones are retained
C3_Witness ==
    /\ Selected
    /\ request.from = "poller"
    /\ gt(request.last_event_offset, u32(0))
    /\ maybe_reply # None
    /\ maybe_reply.offset = wrapping_inc(request.last_event_offset)
    /\ maybe_reply # events[1]

\* C4: no record is selected exactly when the log is empty, and a record
\* that is selected is a retained one.
C4_NoneIffEmpty ==
    Selected =>
        /\ (maybe_reply = None) <=> (events = << >>)
        /\ (maybe_reply # None) => (maybe_reply \in Retained)

\* C4 happens: a request with a nonzero last_event_offset is handled on an
\* empty log and nothing is selected
C4_Witness ==
    /\ Selected
    /\ events = << >>
    /\ gt(request.last_event_offset, u32(0))
    /\ maybe_reply = None

\* C5: where the main loop waits, the retained offsets are consecutive,
\* the newest is next_offset - 1, the first event since start-up or a reset
\* has offset 0, and the log is empty exactly when next_offset is 0.
C5_ConsecutiveOffsets ==
    (main_pc = "select") =>
        /\ \A i \in 1 .. (Len(events) - 1) :
              events[i].offset = wrapping_inc(events[i + 1].offset)
        /\ (events # << >>) => (wrapping_inc(events[1].offset) = event_offset)
        /\ (ingested # << >>) => (ingested[1].offset = u32(0))
        /\ (events = << >>) <=> (event_offset = u32(0))

\* C5 happens: events were ingested after a reset (the polling client
\* holds an offset the log has not reached again)
C5_Witness ==
    /\ main_pc = "select"
    /\ Len(events) = 2
    /\ gt(cursor, event_offset)

\* C6: the log holds the min(k, MAX_EVENTS) most recently ingested records
\* of the k ingested since the last reset, newest first.
C6_MostRecent ==
    /\ Len(events) = Min(Len(ingested), MAX_EVENTS)
    /\ \A i \in 1 .. Len(events) :
          events[i] = ingested[Len(ingested) - i + 1]

\* C6 happens: more records than the log holds were ingested
C6_Witness ==
    /\ Len(ingested) = MAX_EVENTS + 2
    /\ Len(events) = MAX_EVENTS

\* C7: a reset leaves the log empty and next_offset 0, and the event
\* ingested next gets offset 0.
C7_Reset ==
    [][ /\ IngestReset => (events' = << >> /\ event_offset' = u32(0))
        /\ (ingested = << >> /\ IngestKeep) =>
              (Len(events') = 1 /\ events'[1].offset = u32(0)) ]_vars

\* C7 happens: the log is empty after the polling client has seen a record
C7_Witness ==
    /\ events = << >>
    /\ event_offset = u32(0)
    /\ gt(cursor, u32(0))

(***************************************************************************)
(* Properties of the data frame.                                           *)
(***************************************************************************)
Parsed == frame_pc \in {"parsed", "done"}

\* C8: for a header with version 0 and server_address, server_port in
\* 0..31, parsing the frame built from (header, payload) returns that header
\* and that payload.
C8_RoundTrip ==
    (Parsed /\ header # None /\ flipped = -1 /\ header.version = 0
        /\ header.server_address <= 31 /\ header.server_port <= 31)
    => parsed = Ok(header, payload)

\* C8 happens: the header of the repository's tests, with a payload
C8_Witness ==
    /\ Parsed
    /\ flipped = -1
    /\ header = Header(0, "Server", 31, 2, 1)
    /\ Len(payload) > 6
    /\ parsed.ok
    /\ parsed.header = header

\* C9 as stated: a header word whose version bits (bits 1:0) are nonzero
\* parses to ParseError.
C9_VersionRejected ==
    (Parsed /\ data_frame.header.lo % 4 # 0) => parsed = ParseError

\* C10 as stated: a frame built by DataFrame::new that had one bit of its
\* header word changed is rejected, at parse or at the decrypt step.
C10_TamperRejected ==
    (frame_pc = "done" /\ header # None /\ flipped # -1) => ~decrypted.ok

\* the offset the next event gets follows the newest record's, or is 0
\* when the log is empty: no ingestion is half done
LogWhole ==
    IF events = << >>
    THEN event_offset = u32(0)
    ELSE event_offset = wrapping_inc(events[1].offset)

\* a step of the main loop that drops the datagram it received
Dropping ==
    /\ socket_in # << >>
    /\ socket_in' = Tail(socket_in)
    /\ dropped'

\* C13: a datagram that does not decode as a request is dropped: no reply
\* is prepared and the log and event_offset stay as they are, with the
\* loop back at its wait point.  The loop goes to send_to only with a
\* decoded request taken from the socket, and leaves send_to with that
\* request gone: one reply per request at most.
C13_NoiseDropped ==
    [][ /\ Dropping =>
              /\ main_pc' = "select"
              /\ request' = NoRequest
              /\ maybe_reply' = None
              /\ events' = events
              /\ event_offset' = event_offset
        /\ (main_pc = "select" /\ main_pc' = "send") =>
              /\ socket_in # << >>
              /\ socket_in' = Tail(socket_in)
              /\ request'.ok
        /\ (main_pc = "send" /\ main_pc' = "send") =>
              UNCHANGED <<request, maybe_reply>>
        /\ (main_pc = "send" /\ main_pc' = "select") =>
              (request' = NoRequest /\ maybe_reply' = None) ]_vars

\* C13 happens: a datagram was dropped while the log held records, and the
\* loop waits again
C13_Witness ==
    /\ dropped
    /\ main_pc = "select"
    /\ request = NoRequest
    /\ Len(events) >= 2
    /\ socket_in # << >>

\* C14: a request leaves the log and event_offset as they are, from its
\* receipt to the end of send_to; and a request that carries the same
\* last_event_offset as the one answered just before, with nothing ingested
\* in between, gets the same record.
C14_SameAnswer ==
    [][ /\ (main_pc = "select" /\ main_pc' = "send" /\ repeat # None
            /\ request'.last_event_offset = repeat.last_event_offset) =>
              maybe_reply' = repeat.reply
        /\ (main_pc = "send" \/ main_pc' = "send") =>
              (events' = events /\ event_offset' = event_offset) ]_vars

\* C14 happens: the polling client asks again with the cursor it had, and
\* the record selected is the one selected before, an event new to it
C14_Witness ==
    /\ Selected
    /\ request.from = "poller"
    /\ repeat # None
    /\ repeat.last_event_offset = request.last_event_offset
    /\ maybe_reply # None
    /\ maybe_reply = repeat.reply
    /\ gt(maybe_reply.offset, request.last_event_offset)
    /\ Len(events) >= 3

\* C15: while a reply waits in send_to, the log is one that a whole
\* ingestion left (never a record pushed with event_offset not yet moved),
\* and it is still the log the record was selected from.
C15_NoInterleaving ==
    Selected =>
        /\ LogWhole
        /\ maybe_reply = Resolve(events, request.last_event_offset)

\* C15 happens: a reply waits in send_to while an occurrence waits in the
\* channel
C15_Witness ==
    /\ Selected
    /\ channel # << >>
    /\ Len(events) >= 2
    /\ maybe_reply = events[1]

\* C16: a selected record whose offset does not exceed last_event_offset is
\* the newest retained record, and no retained record exceeds
\* last_event_offset.
C16_NotNewOnlyByFallback ==
    (Selected /\ maybe_reply # None
        /\ ~gt(maybe_reply.offset, request.last_event_offset))
    => /\ maybe_reply = events[1]
       /\ Unseen(request.last_event_offset) = {}

\* C16 happens: the client has seen the newest of several records and is
\* answered with that record
C16_Witness ==
    /\ Selected
    /\ Len(events) >= 3
    /\ maybe_reply # None
    /\ maybe_reply.offset = request.last_event_offset
    /\ gt(request.last_event_offset, u32(0))

\* C17 as stated: a request with last_event_offset 0 on a non-empty log is
\* answered with the oldest retained record.
C17_OldestForZero ==
    (Selected /\ request.last_event_offset = u32(0) /\ events # << >>)
    => maybe_reply = events[Len(events)]

\* C18: the channel never holds more than its capacity; the instants never
\* decrease from the oldest retained record to the newest, nor from there
\* through the pending occurrences; the channel changes only by a post that
\* appends to it or by an ingestion that takes its oldest occurrence, which
\* is the one the new record holds.
C18_InOrderOnce ==
    /\ [](/\ Len(channel) <= CHANNEL_CAPACITY
          /\ \A i, j \in 1 .. Len(events) :
                i < j => events[i].instant >= events[j].instant
          /\ \A i, j \in 1 .. Len(channel) :
                i < j => channel[i] <= channel[j]
          /\ (events # << >> /\ channel # << >>) =>
                events[1].instant <= channel[1])
    /\ [][ channel' # channel =>
              \/ /\ gen_pc = "sleep"
                 /\ channel' = Append(channel, event_time)
              \/ /\ channel # << >>
                 /\ channel' = Tail(channel)
                 /\ events' = << >> \/ events'[1].instant = Head(channel)
          ]_vars

\* C18 happens: the source is about to post behind a backlog of occurrences
\* of different instants
C18_Witness ==
    /\ gen_pc = "sleep"
    /\ Len(channel) >= 2
    /\ channel[1] < channel[Len(channel)]
    /\ events # << >>

\* C19: every retained record was kept by an ingestion since the last
\* reset, none by the ingestion that reset the log; and a reply carries a
\* retained record.
C19_ResetDiscards ==
    /\ \A r \in Retained : \E i \in 1 .. Len(ingested) : ingested[i] = r
    /\ (Selected /\ maybe_reply # None) => maybe_reply \in Retained

\* C19 happens: after a reset a client that had seen events is answered
\* with no record
C19_Witness ==
    /\ Selected
    /\ maybe_reply = None
    /\ events = << >>
    /\ request.from = "poller"
    /\ gt(request.last_event_offset, u32(1))

\* every datagram that arrived is received: the socket empties again and
\* again, or the loop receives again and again
DatagramsHandled ==
    []<>(socket_in = << >>) \/ []<><<Receive>>_vars

\* every occurrence posted is ingested: the channel empties again and
\* again, or the loop ingests again and again
OccurrencesIngested ==
    []<>(channel = << >>) \/ []<><<Ingest>>_vars

\* the loop returns from send_to to its wait point
HandlersComplete == (main_pc = "send") ~> (main_pc = "select")

C11_LowFiveBits ==
    (Parsed /\ header # None /\ flipped = -1
        /\ (header.server_address >= 32 \/ header.server_port >= 32))
    => /\ parsed.ok
       /\ parsed.header.server_address = header.server_address % 32
       /\ parsed.header.server_port = header.server_port % 32
       /\ parsed.header.source = header.source
       /\ parsed.header.frame_counter = header.frame_counter

\* C11 happens: address 255 and port 33 come back as 31 and 1
C11_Witness ==
    /\ Parsed
    /\ flipped = -1
    /\ header # None
    /\ header.server_address = 255
    /\ header.server_port = 33
    /\ header.source = "Client"
    /\ header.frame_counter = 65535
    /\ parsed.ok
    /\ parsed.header.server_address = 31
    /\ parsed.header.server_port = 1

\* the packing of the layout (lib.rs:41-48): version in bits 1:0, source in
\* bit 2, address in bits 7:3, port in bits 12:8, zero in bits 15:13, frame
\* counter in bits 31:16
ReferencePacking(h) ==
    [hi |-> h.frame_counter % U16,
     lo |-> (h.version % 4) + 4 * (IF h.source = "Client" THEN 0 ELSE 1)
            + 8 * (h.server_address % 32) + 256 * (h.server_port % 32)]

\* C12 as stated: the word built by new is the packing of the layout, for
\* every header with a version in 0..3.
C12_ReferencePacking ==
    (frame_pc = "built" /\ header # None)
    => data_frame.header = ReferencePacking(header)

====
